---- MODULE Spec2Model ----
(***************************************************************************)
(* Cross-site product search of smartshopper-ai-extension:                 *)
(*   server/routes/search-crosssite.js  (loadCandidates, GET handler)      *)
(*   server/utils/scraper.js            (the site connectors)              *)
(*   server/matcher.js                  (scoreCandidate, findBestMatch;    *)
(*                                       not in src/, taken from spec.md   *)
(*                                       4.1-4.3, 4.5 and from the tests)  *)
(*                                                                         *)
(* Text is a sequence of raw words.  Scores are exact rationals with the   *)
(* common denominator One (One stands for 1.0).                            *)
(***************************************************************************)
EXTENDS Integers, Sequences, FiniteSets, TLC

\* ------------------------------------------------------------------------
\* Bounds of the model
\* ------------------------------------------------------------------------

\* the most products a site's search page holds in the model
MaxHits == 4

\* the most candidates of a direct findBestMatch call in the model
MaxDirect == 2

\* the most connector calls that use the browser in the model
MaxCalls == 3

\* ------------------------------------------------------------------------
\* Generic helpers
\* ------------------------------------------------------------------------

Undefined == "undefined"

\* null: a value of its own, equal to no record of the program
Null == [null |-> TRUE]

Range(s) == {s[i] : i \in 1..Len(s)}

RECURSIVE Flatten(_)
Flatten(ss) == IF ss = <<>> THEN <<>> ELSE Head(ss) \o Flatten(Tail(ss))

SeqsUpTo(S, n) == UNION {[1..k -> S] : k \in 0..n}

Min2(a, b) == IF a <= b THEN a ELSE b

\* ------------------------------------------------------------------------
\* Text: words, normalisation, tokens (spec.md 4.1, 4.2)
\* ------------------------------------------------------------------------

\* what normalize() leaves of a raw word: lower-cased, every character that
\* is not a letter, digit or space replaced by a space, then split on spaces
NormalizeWord(w) ==
  CASE w = "Phone"     -> <<"phone">>
    [] w = "phone"     -> <<"phone">>
    [] w = "(Pro)"     -> <<"pro">>
    [] w = "The"       -> <<"the">>
    [] w = "Case"      -> <<"case">>
    [] w = "X"         -> <<"x">>
    [] w = "-"         -> <<>>
    [] w = "SM-S911B"  -> <<"sm", "s911b">>
    [] w = "S911"      -> <<"s911">>
    [] w = "MQ9T3HN/A" -> <<"mq9t3hn", "a">>
    [] w = "Acme"      -> <<"acme">>
    [] w = "ACME"      -> <<"acme">>
    [] w = "For"       -> <<"for">>
    [] w = "Men"       -> <<"men">>
    [] w = "&"         -> <<>>
    [] w = "Women"     -> <<"women">>
    [] w = "Premium"   -> <<"premium">>
    [] w = "Quality"   -> <<"quality">>
    [] OTHER           -> <<w>>

normalize(text) == Flatten([i \in 1..Len(text) |-> NormalizeWord(text[i])])

STOPWORDS == {"the", "a", "an", "and", "or", "but", "in", "on", "at", "to",
              "for", "of", "with", "by", "from", "as", "is", "was", "are",
              "were", "been"}

\* number of characters of a normalized token
TokenLength(t) ==
  CASE t \in {"a", "x"} -> 1
    [] t \in {"an", "or", "in", "on", "at", "to", "of", "by", "as", "is", "sm"} -> 2
    [] OTHER -> 3

tokenize(text) ==
  {t \in Range(normalize(text)) : TokenLength(t) > 1 /\ t \notin STOPWORDS}

\* the identifier patterns (a)-(d) applied to one raw word; hyphens are
\* stripped from a match, a slash suffix is kept
ModelTokensOfWord(w) ==
  CASE w = "SM-S911B"  -> {"SMS911B"}
    [] w = "S911"      -> {"S911"}
    [] w = "MQ9T3HN/A" -> {"MQ9T3HN/A"}
    [] OTHER           -> {}

extractModelTokens(text) == UNION {ModelTokensOfWord(w) : w \in Range(text)}

\* a is a substring of b (a = b included), on the identifier tokens above
IsSubstring(a, b) == a = b \/ (a = "S911" /\ b = "SMS911B")

SIGNIFICANT_KEYWORDS == {"pro", "max", "plus", "ultra", "mini"}

\* ------------------------------------------------------------------------
\* Scores (spec.md 4.3)
\* ------------------------------------------------------------------------

\* J = i/u is held as i * JDen / u; a union of tokens has at most 10 members
JDen == 2 * 2 * 2 * 3 * 3 * 5 * 7

One == 20 * JDen

STAGE2_FLOOR == One \div 2

STAGE2_SPAN == 9 * JDen

BRAND_BONUS == One \div 10

KEYWORD_BONUS == One \div 20

jaccard(A, B) ==
  IF A \cup B = {} THEN 0
  ELSE (Cardinality(A \cap B) * JDen) \div Cardinality(A \cup B)

\* ------------------------------------------------------------------------
\* Scorer and matcher (server/matcher.js)
\* ------------------------------------------------------------------------

\* obj.f of a JavaScript object: undefined when the property is absent
Field(obj, f) == IF f \in DOMAIN obj THEN obj[f] ELSE Undefined

HasExplicitId(d) == Field(d, "model") # Undefined \/ Field(d, "brand") # Undefined

\* d.model ?? d.title
IdText(d) == IF Field(d, "model") # Undefined THEN d.model ELSE d.title

\* stage 1: some identifier token of one side equals, is part of, or
\* contains one of the other side
ModelMatch(source, candidate) ==
  /\ HasExplicitId(source) \/ HasExplicitId(candidate)
  /\ \E a \in extractModelTokens(IdText(source)),
        b \in extractModelTokens(IdText(candidate)) :
        IsSubstring(a, b) \/ IsSubstring(b, a)

Stage2ScoreUnscaled(A, B) == STAGE2_FLOOR + (jaccard(A, B) * One) \div JDen

\* stage 2: 0.5 + J * 0.45
Stage2Score(A, B) == STAGE2_FLOOR + (jaccard(A, B) * STAGE2_SPAN) \div JDen

BrandMatch(source, candidate) ==
  /\ Field(source, "brand") # Undefined
  /\ Field(candidate, "brand") # Undefined
  /\ normalize(source.brand) = normalize(candidate.brand)

SharedKeywords(source, candidate) ==
  tokenize(source.title) \cap tokenize(candidate.title) \cap SIGNIFICANT_KEYWORDS

WithBonusesUncapped(base, source, candidate) ==
  base + (IF BrandMatch(source, candidate) THEN BRAND_BONUS ELSE 0)
       + KEYWORD_BONUS * Cardinality(SharedKeywords(source, candidate))

\* stage 3: the bonuses, the sum capped at 1.0
WithBonuses(base, source, candidate) ==
  Min2(One, base
            + (IF BrandMatch(source, candidate) THEN BRAND_BONUS ELSE 0)
            + KEYWORD_BONUS * Cardinality(SharedKeywords(source, candidate)))

EmptyTitleScoreStage2 == STAGE2_FLOOR

\* the score of a candidate whose title has no token
EmptyTitleScore == 0

scoreCandidateStage2First(source, candidate) ==
  LET stage2 == IF tokenize(candidate.title) = {}
                THEN <<"empty title">>
                ELSE <<"title similarity">>
                     \o (IF BrandMatch(source, candidate)
                         THEN <<"brand match">> ELSE <<>>)
                     \o (IF SharedKeywords(source, candidate) # {}
                         THEN <<"shared keywords">> ELSE <<>>)
  IN  IF ModelMatch(source, candidate)
      THEN [score |-> One, modelMatch |-> TRUE,
            breakdown |-> stage2 \o <<"exact model match">>]
      ELSE [score |-> IF tokenize(candidate.title) = {} THEN EmptyTitleScore
                      ELSE WithBonuses(Stage2Score(tokenize(source.title),
                                                   tokenize(candidate.title)),
                                       source, candidate),
            modelMatch |-> FALSE, breakdown |-> stage2]

\* the stages in order: identifier match, token overlap, bonuses; every
\* stage and bonus that fires appends its explanation to breakdown
scoreCandidate(source, candidate) ==
  IF ModelMatch(source, candidate)
  THEN [score |-> One, modelMatch |-> TRUE, breakdown |-> <<"exact model match">>]
  ELSE IF tokenize(candidate.title) = {}
  THEN [score |-> EmptyTitleScore, modelMatch |-> FALSE,
        breakdown |-> <<"empty title">>]
  ELSE [score |-> WithBonuses(Stage2Score(tokenize(source.title),
                                          tokenize(candidate.title)),
                              source, candidate),
        modelMatch |-> FALSE,
        breakdown |-> <<"title similarity">>
                      \o (IF BrandMatch(source, candidate)
                          THEN <<"brand match">> ELSE <<>>)
                      \o (IF SharedKeywords(source, candidate) # {}
                          THEN <<"shared keywords">> ELSE <<>>)]

\* { ...candidate, score, reason }; ref is the object's identity, its
\* position in the candidate list
ScoredEntry(source, candidates, i) ==
  LET s == scoreCandidate(source, candidates[i])
  IN  candidates[i] @@ [ref |-> i, score |-> s.score,
                        reason |-> [model_match |-> s.modelMatch,
                                    breakdown |-> s.breakdown]]

\* insert e into the descending list sorted, after every entry whose score
\* is not smaller (Array.prototype.sort is stable)
RECURSIVE InsertByScore(_, _)
InsertByScore(sorted, e) ==
  IF sorted = <<>> THEN <<e>>
  ELSE IF Head(sorted).score >= e.score
       THEN <<Head(sorted)>> \o InsertByScore(Tail(sorted), e)
       ELSE <<e>> \o sorted

RECURSIVE SortByScoreDesc(_)
SortByScoreDesc(entries) ==
  IF entries = <<>> THEN <<>>
  ELSE InsertByScore(SortByScoreDesc(SubSeq(entries, 1, Len(entries) - 1)),
                     entries[Len(entries)])

TitleUndefined(source) == Field(source, "title") = Undefined

\* the title validation: source.title is missing or empty
TitleMissing(source) == Field(source, "title") = Undefined \/ source.title = <<>>

NoCandidatesError == [threw |-> TRUE, error |-> "NoCandidates"]

\* what findBestMatch returns for an empty candidate list
NoCandidatesResult ==
  [threw |-> FALSE, best |-> Null, score |-> 0,
   reason |-> [error |-> "no candidates provided"], allScores |-> <<>>]

findBestMatch(source, candidates) ==
  IF TitleMissing(source)
  THEN [threw |-> TRUE, error |-> "InvalidInput"]
  ELSE IF candidates = <<>>
  THEN NoCandidatesResult
  ELSE LET allScores == SortByScoreDesc(
                          [i \in 1..Len(candidates) |->
                             ScoredEntry(source, candidates, i)])
       IN  [threw |-> FALSE, best |-> allScores[1], score |-> allScores[1].score,
            reason |-> allScores[1].reason, allScores |-> allScores]

\* ------------------------------------------------------------------------
\* Site connectors (server/utils/scraper.js)
\* ------------------------------------------------------------------------

SITES == <<"amazon", "flipkart", "myntra", "meesho">>

\* the maxResults every connector call of loadCandidates passes
SCRAPE_LIMIT == 3

\* what extractPrice().numeric holds: rupees and hundredths
Rupees(r, h) == [rupees |-> r, hundredths |-> h]

\* numericPrice: null of a product whose price was not extracted
NullPrice == Null

\* the URL of a product page, which holds the product's id
ProductUrl(id) == [page |-> "product", id |-> id]

\* the URL of the search page, which holds no product id
SearchUrl == [page |-> "search", id |-> ""]

\* products a search page of the site can show in the model; url is the
\* product's link, or what the connector puts in its place: the search URL
\* (link || searchUrl) or the first product URL (product.url || productUrls[0]); a product of
\* the Puppeteer connector has a name and a price; one of the RapidAPI
\* connector has a title and may lack the price
PageProducts(site) ==
  CASE site = "flipkart" ->
         { [productName |-> <<"The", "phone", "(Pro)">>, numericPrice |-> Rupees(500, 0),
            url |-> ProductUrl("itmA")],
           [productName |-> <<"-">>, numericPrice |-> NullPrice,
            url |-> ProductUrl("itmA")] }
    [] site = "myntra" ->
         { [productName |-> <<"The", "phone", "(Pro)">>, numericPrice |-> Rupees(450, 0),
            url |-> ProductUrl("101")],
           [productName |-> <<"Phone", "Case">>, numericPrice |-> Rupees(300, 50),
            url |-> SearchUrl] }
    [] OTHER ->
         { [productName |-> <<"phone", "(Pro)">>, numericPrice |-> Rupees(499, 99),
            url |-> ProductUrl("p1")] }

TakeAll(s, n) == s

\* s.slice(0, n)
Take(s, n) == SubSeq(s, 1, Min2(Len(s), n))

\* searchFlipkartRapidAPI: the products, sliced to maxResults, or [] on any
\* error; it never throws
searchFlipkartRapidAPI(maxResults) ==
  {[threw |-> FALSE, results |-> Take(hits, maxResults)] :
     hits \in SeqsUpTo(PageProducts("flipkart"), MaxHits)}

\* scrapeSearchResults: getBrowser()/newPage() are outside the try and may
\* reject; inside it, the first maxResults products or [] on an error
scrapeSearchResults(site, maxResults) ==
  {[threw |-> TRUE, results |-> <<>>]}
  \cup {[threw |-> FALSE, results |-> Take(hits, maxResults)] :
          hits \in SeqsUpTo(PageProducts(site), MaxHits)}

\* scraper.js exports no searchAmazonRapidAPI: the name imported by the
\* route is undefined and calling it throws a TypeError
searchAmazonRapidAPI(maxResults) == {[threw |-> TRUE, results |-> <<>>]}

\* ------------------------------------------------------------------------
\* loadCandidates (server/routes/search-crosssite.js)
\* ------------------------------------------------------------------------

SitesAll(excludeSite) == SITES

\* sites.filter(site => site !== excludeSite)
SitesExcept(excludeSite) == SelectSeq(SITES, LAMBDA s : s # excludeSite)

ConnectorOutcomes(site) ==
  IF site = "flipkart" THEN searchFlipkartRapidAPI(SCRAPE_LIMIT)
  ELSE IF site = "amazon" THEN searchAmazonRapidAPI(SCRAPE_LIMIT)
  ELSE scrapeSearchResults(site, SCRAPE_LIMIT)

\* Math.round((product.numericPrice || 0) * 100)
PriceCents(numericPrice) ==
  IF numericPrice = NullPrice THEN 0
  ELSE numericPrice.rupees * 100 + numericPrice.hundredths

\* extractProductId: the id in a product URL of flipkart, myntra or meesho,
\* null for any other URL and for any other site
extractProductId(url, site) ==
  IF site \in {"flipkart", "myntra", "meesho"} /\ url.page = "product"
  THEN [id |-> url.id]
  ELSE Null

\* values of Date.now() in the order they can be read
READINGS == <<"t0", "t1", "t2", "t3", "t4", "t5">>

\* extractProductId(product.url, site) || `${site}_${Date.now()}`
SiteId(site, product, now) ==
  IF extractProductId(product.url, site) # Null
  THEN <<extractProductId(product.url, site).id>>
  ELSE <<site, "_", now>>

\* scraper format to matcher format
ToCandidate(site, product, now) ==
  [site |-> site, site_id |-> SiteId(site, product, now),
   title |-> product.productName,
   price_cents |-> PriceCents(product.numericPrice)]

\* whether the clock may read differently for two products of one results.map:
\* it matters only when two of them get no id from their URL
ClockChoices(site, outcome) ==
  IF Cardinality({k \in 1..Len(outcome.results) :
                    extractProductId(outcome.results[k].url, site) = Null}) >= 2
  THEN BOOLEAN
  ELSE {FALSE}

\* what a scrape promise does before it settles: the connector call, then
\* the conversion, during which the millisecond clock advanced at every
\* product (ticked) or stood still
MapOutcomes(site) ==
  UNION {{outcome @@ [ticked |-> t] : t \in ClockChoices(site, outcome)} :
           outcome \in ConnectorOutcomes(site)}

\* the value one scrape promise resolves with: the try/catch around the
\* connector call turns a throw into []
TaskValue(site, outcome) ==
  IF outcome.threw THEN <<>>
  ELSE [k \in 1..Len(outcome.results) |->
          ToCandidate(site, outcome.results[k],
                      IF outcome.ticked THEN READINGS[k] ELSE READINGS[1])]

PromiseAllSlotByArrival(index, arrival) == arrival

\* the slot of the Promise.all result array a settled promise fills: its
\* index in the array of promises, whenever it settles
PromiseAllSlot(index, arrival) == index

\* results.forEach(siteResults => candidates.push(...siteResults))
FlattenResults(results) == Flatten(results)

MOCK_PRICES == {30000, 79999}

\* query.split(/\s+/).slice(0, 8)
FirstWords(query) == Take(query, 8)

MockVariant(words, index) ==
  CASE index % 3 = 0 -> words
    [] index % 3 = 1 -> words \o <<"For", "Men", "&", "Women">>
    [] index % 3 = 2 -> words \o <<"-", "Premium", "Quality">>

\* the index of forEach as text
IndexText(index) == <<"0", "1", "2", "3">>[index + 1]

\* the fallback list; prices[k] is Math.floor(basePrice * 100) of entry k;
\* site_id is `MOCK_${SITE}_${Date.now()}_${index}`, distinct by its index
\* whatever the clock reads
MockCandidates(query, excludeSite, prices) ==
  LET sites == SitesExcept(excludeSite)
  IN  [k \in 1..Len(sites) |->
         [site |-> sites[k],
          site_id |-> <<"MOCK", sites[k], READINGS[1], IndexText(k - 1)>>,
          title |-> MockVariant(FirstWords(query), k - 1),
          price_cents |-> prices[k], mock |-> TRUE]]

\* a scraped list is returned as it is; an empty one is replaced by mock data
WithFallback(scraped, query, excludeSite, prices) ==
  IF Len(scraped) = 0 THEN MockCandidates(query, excludeSite, prices)
  ELSE scraped

\* ------------------------------------------------------------------------
\* GET /v1/search-crosssite (server/routes/search-crosssite.js)
\* ------------------------------------------------------------------------

\* 0.4
MATCH_THRESHOLD == (2 * One) \div 5

\* 0.8
EXCELLENT_SCORE == (4 * One) \div 5

\* 0.6
GOOD_SCORE == (3 * One) \div 5

ReplacesOnTie(candidate, kept) == candidate.score >= kept.score

\* the test of the grouping loop: the candidate replaces the kept entry
Replaces(candidate, kept) == candidate.score > kept.score

\* result.allScores.forEach(candidate => { if (!siteGroups[candidate.site]
\*   || candidate.score > siteGroups[candidate.site].score) ... })
RECURSIVE GroupBySite(_, _)
GroupBySite(siteGroups, allScores) ==
  IF allScores = <<>> THEN siteGroups
  ELSE LET candidate == Head(allScores)
       IN  GroupBySite(
             IF candidate.site \notin DOMAIN siteGroups
                \/ Replaces(candidate, siteGroups[candidate.site])
             THEN (candidate.site :> candidate) @@ siteGroups
             ELSE siteGroups,
             Tail(allScores))

NoGroups == [s \in {} |-> Null]

MatchQualityTwoTiers(score) ==
  IF score >= GOOD_SCORE THEN "excellent" ELSE "fair"

\* score >= 0.8 ? 'excellent' : score >= 0.6 ? 'good' : 'fair'
MatchQuality(score) ==
  IF score >= EXCELLENT_SCORE THEN "excellent"
  ELSE IF score >= GOOD_SCORE THEN "good" ELSE "fair"

UnavailableScoreZero(siteGroups, targetSite) == 0

\* the score an unavailable entry reports: match ? match.score : 0
UnavailableScore(siteGroups, targetSite) ==
  IF targetSite \in DOMAIN siteGroups THEN siteGroups[targetSite].score ELSE 0

REASON_LOW_SCORE == "Low match score - might be different product"

REASON_NOT_FOUND == "Product not found on this site"

UnavailableReasonNotFound(siteGroups, targetSite) == REASON_NOT_FOUND

\* the reason of an unavailable entry:
\* match ? 'Low match score - ...' : 'Product not found on this site'
UnavailableReason(siteGroups, targetSite) ==
  IF targetSite \in DOMAIN siteGroups THEN REASON_LOW_SCORE ELSE REASON_NOT_FOUND

IsAvailableStrict(siteGroups, targetSite, threshold) ==
  targetSite \in DOMAIN siteGroups /\ siteGroups[targetSite].score > threshold

\* match && match.score >= threshold
IsAvailable(siteGroups, targetSite, threshold) ==
  targetSite \in DOMAIN siteGroups /\ siteGroups[targetSite].score >= threshold

\* one entry of finalResults
FinalResult(siteGroups, targetSite, threshold) ==
  IF IsAvailable(siteGroups, targetSite, threshold)
  THEN LET match == siteGroups[targetSite]
       IN  [site |-> targetSite, available |-> TRUE, title |-> match.title,
            price_cents |-> match.price_cents, score |-> match.score,
            reason |-> match.reason, match_quality |-> MatchQuality(match.score),
            ref |-> match.ref]
  ELSE [site |-> targetSite, available |-> FALSE,
        title |-> <<"Not", "Available">>, price_cents |-> 0,
        score |-> UnavailableScore(siteGroups, targetSite),
        reason |-> UnavailableReason(siteGroups, targetSite),
        match_quality |-> "none"]

FinalResultsOfGroups(siteGroups, site, threshold) ==
  LET targets == SelectSeq(SitesExcept(site), LAMBDA s : s \in DOMAIN siteGroups)
  IN  [k \in 1..Len(targets) |-> FinalResult(siteGroups, targets[k], threshold)]

\* allSites.filter(s => s !== site).map(targetSite => ...)
FinalResultsAt(siteGroups, site, threshold) ==
  LET targets == SitesExcept(site)
  IN  [k \in 1..Len(targets) |-> FinalResult(siteGroups, targets[k], threshold)]

FinalResults(siteGroups, site) == FinalResultsAt(siteGroups, site, MATCH_THRESHOLD)

BestOverallLast(result, finalResults) == result.allScores[Len(result.allScores)]

\* best_overall: result.best
BestOverall(result, finalResults) == result.best

\* the 'Not Available' list sent when loadCandidates returns nothing
NotAvailableResults(site) ==
  LET targets == SitesExcept(site)
  IN  [k \in 1..Len(targets) |->
         [site |-> targets[k], available |-> FALSE,
          title |-> <<"Not", "Available">>, price_cents |-> 0, score |-> 0,
          reason |-> REASON_NOT_FOUND]]

\* ------------------------------------------------------------------------
\* State
\* ------------------------------------------------------------------------

VARIABLES
  pc,           \* "idle", "loading" (scrape promises pending), "responded",
                \* "called" (a direct findBestMatch call returned)
  source,       \* the source product of the request or of the direct call
  promises,     \* the sites of scrapePromises, in array order
  running,      \* indexes of the scrape promises not yet settled
  hung,         \* indexes of the running promises that will never settle
  inversion,    \* some promise settled before one of a smaller index
  outcomes,     \* per promise index, what its connector call did and
                \* whether the clock advanced while its products were converted
  results,      \* the array Promise.all builds
  candidates,   \* the list loadCandidates returned / the direct call was given
  result,       \* what findBestMatch returned
  siteGroups,   \* best entry per site
  response      \* what the handler sent

\* the browser of server/utils/scraper.js and the connector calls using it
VARIABLES
  browserInstance,  \* the module variable: NoBrowser (null) or a browser
  connected,        \* the browsers launched and still connected
  launches,         \* how many browsers puppeteer.launch has started
  call,             \* per connector call: its function, its position, the
                    \* browser getBrowser gave it
  openPages         \* the pages opened and not closed: owner call, browser

bvars == <<browserInstance, connected, launches, call, openPages>>

\* the variables of a request
rvars == <<pc, source, promises, running, hung, inversion, outcomes, results,
           candidates, result, siteGroups, response>>

vars == <<rvars, bvars>>

\* a connector call that has not returned or thrown yet
Pending == [pending |-> TRUE]

\* a slot of the Promise.all array that no promise has filled yet
EmptySlot == <<Pending>>

\* req.query values of the model; "" is a missing parameter
REQ_SITES == {"amazon", "flipkart", "myntra", "snapdeal", ""}

REQ_IDS == {"B0BN94DM8Z", ""}

REQ_TITLES == {<<"Phone", "(Pro)">>, <<"Case">>, <<>>}

\* descriptors of direct calls of the matcher, as the tests make them
DIRECT_SOURCES ==
  { [title |-> <<"Phone", "(Pro)">>, model |-> <<"SM-S911B">>],
    [title |-> <<"Phone", "(Pro)">>, brand |-> <<"Acme">>],
    [title |-> <<"Phone", "(Pro)", "Case", "Men", "Women", "Premium",
                 "Quality", "blue", "steel">>, brand |-> <<"Acme">>],
    [title |-> <<>>],
    [brand |-> <<"Acme">>] }

DIRECT_CANDIDATES ==
  { [site |-> "flipkart", title |-> <<"Case">>, model |-> <<"SM-S911B">>,
     price_cents |-> 90000],
    [site |-> "amazon", title |-> <<"The", "phone", "(Pro)">>,
     brand |-> <<"ACME">>, price_cents |-> 10000],
    [site |-> "flipkart", title |-> <<"Phone", "S911">>, price_cents |-> 5000],
    [site |-> "flipkart", title |-> <<"Phone", "(Pro)", "Case", "Men", "Women",
                                      "Premium", "Quality", "blue">>,
     brand |-> <<"ACME">>, price_cents |-> 20000],
    [site |-> "amazon", title |-> <<"Phone", "Case", "Men", "Women", "Premium",
                                    "Quality", "blue", "steel">>,
     brand |-> <<"ACME">>, price_cents |-> 20000],
    [site |-> "myntra", title |-> <<>>, price_cents |-> 1000] }

CALLS == 1..MaxCalls

\* browserInstance = null
NoBrowser == 0

\* a connector call that has not started
IdleCall == [kind |-> "none", at |-> "idle", browser |-> NoBrowser]

Init ==
  /\ pc = "idle"
  /\ source = Null
  /\ promises = <<>>
  /\ running = {}
  /\ hung = {}
  /\ inversion = FALSE
  /\ outcomes = <<>>
  /\ results = <<>>
  /\ candidates = <<>>
  /\ result = Null
  /\ siteGroups = NoGroups
  /\ response = Null
  /\ browserInstance = NoBrowser
  /\ connected = {}
  /\ launches = 0
  /\ call = [c \in CALLS |-> IdleCall]
  /\ openPages = {}

\* the handler up to its first await: validation, then loadCandidates starts
\* one scrape promise per site other than the request's
Request(site, id, title) ==
  /\ pc = "idle"
  /\ IF site = "" \/ id = "" \/ title = <<>>
     THEN /\ pc' = "responded"
          /\ response' = [status |-> 400, error |-> "Missing required parameters"]
          /\ UNCHANGED <<source, promises, running, outcomes, results>>
     ELSE /\ pc' = "loading"
          /\ source' = [site |-> site, site_id |-> id, title |-> title,
                        canonical_key |-> <<site, ":", id>>]
          /\ promises' = SitesExcept(site)
          /\ running' = 1..Len(SitesExcept(site))
          /\ outcomes' = [k \in 1..Len(SitesExcept(site)) |-> Pending]
          /\ results' = [k \in 1..Len(SitesExcept(site)) |-> EmptySlot]
          /\ response' = Null
  /\ hung' = {}
  /\ inversion' = FALSE
  /\ candidates' = <<>>
  /\ result' = Null
  /\ siteGroups' = NoGroups
  /\ UNCHANGED bvars

PushedOnSettle(shared, value) == shared \o value

\* the shared candidates array when a scrape promise settles: the task
\* returns its list to Promise.all and pushes nothing
SharedOnSettle(shared, value) == shared

\* one scrape promise settles: the connector returned or threw, the products
\* were converted, Promise.all stored the value
TaskSettle(index) ==
  /\ pc = "loading"
  /\ index \in running \ hung
  /\ \E outcome \in MapOutcomes(promises[index]) :
       /\ outcomes' = [outcomes EXCEPT ![index] = outcome]
       /\ results' = [results EXCEPT
                        ![PromiseAllSlot(index, Len(promises) - Cardinality(running) + 1)] =
                          TaskValue(promises[index], outcome)]
       /\ candidates' = SharedOnSettle(candidates, TaskValue(promises[index], outcome))
  /\ running' = running \ {index}
  /\ inversion' = (inversion \/ \E earlier \in running : earlier < index)
  /\ UNCHANGED <<pc, source, promises, hung, result, siteGroups, response>>
  /\ UNCHANGED bvars

\* connectors with an await that nothing bounds: the fetch of
\* searchFlipkartRapidAPI has no timeout and no abort signal
MayNeverSettle(site) == site = "flipkart"

\* the connector call of a scrape promise stops making progress: its promise
\* stays pending for ever, and nothing in loadCandidates gives up on it
TaskHang(index) ==
  /\ pc = "loading"
  /\ index \in running \ hung
  /\ MayNeverSettle(promises[index])
  /\ hung' = hung \cup {index}
  /\ UNCHANGED <<pc, source, promises, running, inversion, outcomes, results,
                 candidates, result, siteGroups, response>>
  /\ UNCHANGED bvars

\* the handler from the return of loadCandidates on: empty check,
\* findBestMatch, grouping, finalResults, res.json
Handle(loaded) ==
  LET matched == findBestMatch(source, loaded)
      groups  == GroupBySite(NoGroups, matched.allScores)
      final   == FinalResults(groups, source.site)
  IN  /\ candidates' = loaded
      /\ IF Len(loaded) = 0
         THEN /\ result' = Null
              /\ siteGroups' = NoGroups
              /\ response' = [status |-> 200, source |-> source,
                              results |-> NotAvailableResults(source.site)]
         ELSE /\ result' = matched
              /\ siteGroups' = groups
              /\ response' = [status |-> 200, source |-> source,
                              results |-> final,
                              best_overall |-> BestOverall(matched, final),
                              total_candidates |-> Len(loaded)]

\* await Promise.all(scrapePromises) resumes the handler: every scrape
\* promise has settled
PromiseAllResolved == pc = "loading" /\ running = {}

\* the rest of the handler, run when Promise.all resolves: flatten, mock
\* fallback (with its random prices), then Handle
Respond ==
  /\ PromiseAllResolved
  /\ LET scraped == FlattenResults(results)
     IN  IF Len(scraped) = 0
         THEN \E prices \in [1..Len(promises) -> MOCK_PRICES] :
                Handle(WithFallback(scraped, source.title, source.site, prices))
         ELSE Handle(WithFallback(scraped, source.title, source.site, <<>>))
  /\ pc' = "responded"
  /\ UNCHANGED <<source, promises, running, hung, inversion, outcomes, results>>
  /\ UNCHANGED bvars

\* findBestMatch(src, cands) called directly, as tests/integration-match.test.js
\* does
DirectCall(src, cands) ==
  /\ pc = "idle"
  /\ pc' = "called"
  /\ source' = src
  /\ candidates' = cands
  /\ result' = findBestMatch(src, cands)
  /\ siteGroups' = NoGroups
  /\ response' = Null
  /\ promises' = <<>>
  /\ running' = {}
  /\ hung' = {}
  /\ inversion' = FALSE
  /\ outcomes' = <<>>
  /\ results' = <<>>
  /\ UNCHANGED bvars

\* the request or call is over; nothing of it is kept
Done ==
  /\ pc \in {"responded", "called"}
  /\ pc' = "idle"
  /\ source' = Null
  /\ promises' = <<>>
  /\ running' = {}
  /\ hung' = {}
  /\ inversion' = FALSE
  /\ outcomes' = <<>>
  /\ results' = <<>>
  /\ candidates' = <<>>
  /\ result' = Null
  /\ siteGroups' = NoGroups
  /\ response' = Null
  /\ UNCHANGED bvars

Next ==
  \/ \E site \in REQ_SITES, id \in REQ_IDS, title \in REQ_TITLES :
       Request(site, id, title)
  \/ \E index \in 1..Len(SITES) : TaskSettle(index)
  \/ \E index \in 1..Len(SITES) : TaskHang(index)
  \/ Respond
  \/ \E src \in DIRECT_SOURCES, cands \in SeqsUpTo(DIRECT_CANDIDATES, MaxDirect) :
       DirectCall(src, cands)
  \/ Done

Spec == Init /\ [][Next]_vars

\* ------------------------------------------------------------------------
\* The shared browser and the pages of the connectors (server/utils/scraper.js)
\* ------------------------------------------------------------------------

\* the connector functions that open a page
KINDS == {"scrapeSearchResults", "searchFlipkartRapidAPI", "scrapeProductUrl"}

\* !browserInstance || !browserInstance.isConnected()
NeedsLaunch == browserInstance = NoBrowser \/ browserInstance \notin connected

\* a connector call up to its first await, inside getBrowser: it awaits
\* puppeteer.launch, or it has the instance and goes on to browser.newPage
BeginCall(kind) ==
  IF NeedsLaunch
  THEN [kind |-> kind, at |-> "launching", browser |-> NoBrowser]
  ELSE [kind |-> kind, at |-> "newPage", browser |-> browserInstance]

\* the connector function loadCandidates calls for a site; the amazon
\* connector is not a function and uses no browser
ConnectorKind(site) ==
  IF site = "flipkart" THEN "searchFlipkartRapidAPI" ELSE "scrapeSearchResults"

BrowserSites(excludeSite) ==
  SelectSeq(SitesExcept(excludeSite), LAMBDA s : s # "amazon")

\* the connector calls made so far; calls are numbered as they are made
Started == Cardinality({c \in CALLS : call[c].at # "idle"})

\* loadCandidates creates its scrape promises in one map: every connector
\* call runs up to its first await before any launch can complete
StartScrapes(excludeSite) ==
  LET sites == BrowserSites(excludeSite)
  IN  /\ Started + Len(sites) <= MaxCalls
      /\ call' = [c \in CALLS |->
                    IF Started < c /\ c <= Started + Len(sites)
                    THEN BeginCall(ConnectorKind(sites[c - Started]))
                    ELSE call[c]]
      /\ UNCHANGED <<browserInstance, connected, launches, openPages>>
      /\ UNCHANGED rvars

\* one connector call made on its own (scrapeSite of the price route, the
\* scraper tests)
StartCall(c, kind) ==
  /\ c = Started + 1
  /\ call' = [call EXCEPT ![c] = BeginCall(kind)]
  /\ UNCHANGED <<browserInstance, connected, launches, openPages>>
  /\ UNCHANGED rvars

\* browserInstance = await puppeteer.launch(...); return browserInstance
LaunchDone(c) ==
  /\ call[c].at = "launching"
  /\ launches' = launches + 1
  /\ connected' = connected \cup {launches + 1}
  /\ browserInstance' = launches + 1
  /\ call' = [call EXCEPT ![c].at = "newPage", ![c].browser = launches + 1]
  /\ UNCHANGED openPages
  /\ UNCHANGED rvars

\* puppeteer.launch rejects: getBrowser throws and the connector call ends
LaunchFail(c) ==
  /\ call[c].at = "launching"
  /\ call' = [call EXCEPT ![c].at = "done"]
  /\ UNCHANGED <<browserInstance, connected, launches, openPages>>
  /\ UNCHANGED rvars

\* const page = await browser.newPage(); it rejects on a browser that is
\* no longer connected
NewPage(c) ==
  /\ call[c].at = "newPage"
  /\ IF call[c].browser \in connected
     THEN /\ openPages' = openPages \cup {[owner |-> c, browser |-> call[c].browser]}
          /\ call' = [call EXCEPT ![c].at = "onPage"]
     ELSE /\ call' = [call EXCEPT ![c].at = "done"]
          /\ UNCHANGED openPages
  /\ UNCHANGED <<browserInstance, connected, launches>>
  /\ UNCHANGED rvars

\* whether the connector closes its page when its page work succeeded (ok)
\* or threw: scrapeSearchResults and scrapeProductUrl close it in a finally,
\* searchFlipkartRapidAPI only after page.evaluate, on its success path
ClosesPage(kind, ok) == kind # "searchFlipkartRapidAPI" \/ ok

\* the rest of a connector call: the work on the page (goto, waitForSelector,
\* evaluate, content) succeeds or throws, the page is closed or not, the
\* call returns
Finish(c, ok) ==
  /\ call[c].at = "onPage"
  /\ openPages' = IF ClosesPage(call[c].kind, ok)
                  THEN {pg \in openPages : pg.owner # c}
                  ELSE openPages
  /\ call' = [call EXCEPT ![c].at = "done"]
  /\ UNCHANGED <<browserInstance, connected, launches>>
  /\ UNCHANGED rvars

\* a browser crashes or is closed from outside: its pages go with it,
\* browserInstance still refers to it
Disconnect(b) ==
  /\ b \in connected
  /\ connected' = connected \ {b}
  /\ openPages' = {pg \in openPages : pg.browser # b}
  /\ UNCHANGED <<browserInstance, launches, call>>
  /\ UNCHANGED rvars

BrowserNext ==
  \/ \E excludeSite \in Range(SITES) : StartScrapes(excludeSite)
  \/ \E c \in CALLS, kind \in KINDS : StartCall(c, kind)
  \/ \E c \in CALLS : LaunchDone(c)
  \/ \E c \in CALLS : LaunchFail(c)
  \/ \E c \in CALLS : NewPage(c)
  \/ \E c \in CALLS, ok \in BOOLEAN : Finish(c, ok)
  \/ \E b \in 1..MaxCalls : Disconnect(b)

BrowserSpec == Init /\ [][BrowserNext]_vars

\* ------------------------------------------------------------------------
\* Properties
\* ------------------------------------------------------------------------

\* the handler answered a valid request
Responded200 == pc = "responded" /\ response.status = 200

\* a direct findBestMatch call returned without throwing
CalledOk == pc = "called" /\ ~result.threw

\* the score of the i-th candidate of the list
ScoreOf(i) == scoreCandidate(source, candidates[i]).score

Indexes == 1..Len(candidates)

\* the first candidate, in input order, among those of the highest score
IsEarliestMax(i, among) ==
  /\ i \in among
  /\ \A j \in among : ScoreOf(j) <= ScoreOf(i) /\ (ScoreOf(j) = ScoreOf(i) => i <= j)

OfSite(s) == {i \in Indexes : candidates[i].site = s}

\* what the connector of promise k returned, in matcher format; nothing
\* when it threw
Returned(k) == TaskValue(promises[k], outcomes[k])

\* C1: whatever connectors throw, loadCandidates completes and returns
\* exactly the candidates returned by the connectors that succeeded (a
\* failed connector contributes none), and the response is a valid one
C1_PartialFailureTolerance ==
  Responded200 /\ (\E k \in 1..Len(promises) : outcomes[k].threw) =>
    /\ candidates = Flatten([k \in 1..Len(promises) |-> Returned(k)])
    /\ "results" \in DOMAIN response

\* C2: the entry kept for a site is a candidate of that site of the highest
\* score among the site's candidates, the first of them in input order
C2_PerSourceBest ==
  Responded200 =>
    /\ DOMAIN siteGroups = {candidates[i].site : i \in Indexes}
    /\ \A s \in DOMAIN siteGroups :
         /\ siteGroups[s].site = s
         /\ IsEarliestMax(siteGroups[s].ref, OfSite(s))
         /\ siteGroups[s].score = ScoreOf(siteGroups[s].ref)

\* C2 witness: two candidates of one site tie on the site's highest score
\* and the first of them is the one kept
C2_Witness ==
  /\ Responded200
  /\ \E s \in DOMAIN siteGroups : \E i, j \in OfSite(s) :
       /\ i < j
       /\ ScoreOf(i) = ScoreOf(j)
       /\ ScoreOf(i) = siteGroups[s].score
       /\ siteGroups[s].ref = i

\* C3: overallBest is the candidate of the highest score over all sites, the
\* first of them in input order; it is null only for an empty candidate
\* list; it is the entry kept for its own site
C3_OverallBest ==
  /\ Responded200 =>
       /\ response.best_overall # Null
       /\ IsEarliestMax(response.best_overall.ref, Indexes)
       /\ response.best_overall.score = ScoreOf(response.best_overall.ref)
       /\ siteGroups[response.best_overall.site].ref = response.best_overall.ref
  /\ CalledOk =>
       /\ (result.best = Null) <=> (candidates = <<>>)
       /\ candidates # <<>> => IsEarliestMax(result.best.ref, Indexes)

\* C3 witness: candidates of two sites tie on the highest score, and the
\* first of them is the overall best although it is not the only candidate
\* of its site
C3_Witness ==
  /\ Responded200
  /\ \E i, j \in Indexes :
       /\ i < j
       /\ candidates[i].site # candidates[j].site
       /\ ScoreOf(i) = ScoreOf(j)
       /\ response.best_overall.ref = i
       /\ Cardinality(OfSite(candidates[i].site)) > 1

\* thresholds of the model, to compare the availability view at
THRESHOLDS == {0, MATCH_THRESHOLD, GOOD_SCORE, One}

\* C4: a site is reported available if and only if it has candidates and the
\* best of them scores at least the threshold; a best score equal to the
\* threshold counts as available
C4_ThresholdConsistency ==
  Responded200 =>
    /\ \A k \in 1..Len(response.results) :
         response.results[k].available <=>
           \E i \in OfSite(response.results[k].site) : ScoreOf(i) >= MATCH_THRESHOLD
    /\ \A s \in DOMAIN siteGroups :
         FinalResult(siteGroups, s, siteGroups[s].score).available

\* C4 witness: one response reports a site available, a site with candidates
\* not available, and a site without candidates not available
C4_Witness ==
  /\ Responded200
  /\ \E a, b, c \in 1..Len(response.results) :
       /\ response.results[a].available
       /\ ~response.results[b].available /\ OfSite(response.results[b].site) # {}
       /\ ~response.results[c].available /\ OfSite(response.results[c].site) = {}

\* C5: at any two thresholds the availability view reports the same sites in
\* the same order with the same scores and, where both report a site
\* available, the same candidate; the grouping and the overall best do not
\* depend on the threshold
C5_ThresholdIndependence ==
  Responded200 =>
    /\ response.results = FinalResultsAt(siteGroups, source.site, MATCH_THRESHOLD)
    /\ \A t1, t2 \in THRESHOLDS :
         LET r1 == FinalResultsAt(siteGroups, source.site, t1)
             r2 == FinalResultsAt(siteGroups, source.site, t2)
         IN  /\ Len(r1) = Len(r2)
             /\ \A k \in 1..Len(r1) :
                  /\ r1[k].site = r2[k].site
                  /\ r1[k].score = r2[k].score
                  /\ r1[k].available /\ r2[k].available => r1[k].ref = r2[k].ref

\* C5 witness: a site with a best candidate of a positive score is available
\* at one threshold and not at another
C5_Witness ==
  /\ Responded200
  /\ \E s \in DOMAIN siteGroups : \E t1, t2 \in THRESHOLDS :
       /\ siteGroups[s].score > 0
       /\ FinalResult(siteGroups, s, t1).available
       /\ ~FinalResult(siteGroups, s, t2).available

\* C6: a candidate sharing an identifier token with the source scores
\* exactly 1.0 whatever its title, and when there is one, the overall best
\* is such a candidate, whatever the prices
C6_ExactMatchDominance ==
  (Responded200 \/ CalledOk) /\ candidates # <<>> =>
    /\ \A i \in Indexes : ModelMatch(source, candidates[i]) => ScoreOf(i) = One
    /\ (\E i \in Indexes : ModelMatch(source, candidates[i]))
         => ModelMatch(source, candidates[result.best.ref])

\* C7: a scored candidate has score 1.0 if and only if modelMatch is true
C7_ScoreOneIffModelMatch ==
  (Responded200 \/ CalledOk) =>
    \A k \in 1..Len(result.allScores) :
      (result.allScores[k].score = One) <=> result.allScores[k].reason.model_match

InUnit(score) == 0 <= score /\ score <= One

\* C8: every score, of a scored candidate, of a kept entry, of a reported
\* entry and of the overall best, lies between 0.0 and 1.0
C8_ScoreBounds ==
  /\ (Responded200 \/ CalledOk) =>
       /\ InUnit(result.score)
       /\ \A k \in 1..Len(result.allScores) : InUnit(result.allScores[k].score)
  /\ Responded200 =>
       /\ \A k \in 1..Len(response.results) : InUnit(response.results[k].score)
       /\ \A s \in DOMAIN siteGroups : InUnit(siteGroups[s].score)
       /\ InUnit(response.best_overall.score)

\* C8 witness: a candidate without identifier match whose title score and
\* bonuses add up to more than 1.0 has been scored, and one of score 0
C8_Witness ==
  /\ CalledOk
  /\ \E i, j \in Indexes :
       /\ ~ModelMatch(source, candidates[i])
       /\ tokenize(candidates[i].title) # {}
       /\ Stage2Score(tokenize(source.title), tokenize(candidates[i].title))
            + (IF BrandMatch(source, candidates[i]) THEN BRAND_BONUS ELSE 0)
            + KEYWORD_BONUS * Cardinality(SharedKeywords(source, candidates[i])) > One
       /\ \E k \in 1..Len(result.allScores) :
            result.allScores[k].ref = i /\ result.allScores[k].score = One
       /\ ScoreOf(j) = 0

\* position of a site in the list of connectors
SiteIndex(site) == CHOOSE k \in 1..Len(SITES) : SITES[k] = site

\* C10: in whatever order the scrape promises settle, the candidate list
\* holds the sites in registration order and, per site, the connector's
\* results in the connector's order
C10_RegistrationOrder ==
  Responded200 =>
    /\ \A i, j \in Indexes :
         i < j => SiteIndex(candidates[i].site) <= SiteIndex(candidates[j].site)
    /\ (\E k \in 1..Len(promises) : Returned(k) # <<>>) =>
         \A k \in 1..Len(promises) :
           SelectSeq(candidates, LAMBDA c : c.site = promises[k]) = Returned(k)

\* C10 witness: a promise settled before one registered earlier, and the
\* list holds scraped candidates of two sites, one of them with two results
C10_Witness ==
  /\ Responded200
  /\ inversion
  /\ \E k1, k2 \in 1..Len(promises) :
       k1 < k2 /\ Len(Returned(k1)) > 1 /\ Returned(k2) # <<>>

\* the scrape promises of the request that have settled
Settled == (1..Len(promises)) \ running

\* C11: while any scrape promise of a request is still running, nothing has
\* been merged into the candidate list, nothing has been matched and nothing
\* has been sent to the caller, whether or not another promise already failed
C11_FanInAfterAllSettled ==
  running # {} => candidates = <<>> /\ result = Null /\ response = Null

\* C11 witness: one connector has thrown and another has returned products
\* while a third promise is still running
C11_Witness ==
  /\ pc = "loading"
  /\ running # {}
  /\ \E failed, ok \in Settled :
       /\ outcomes[failed].threw
       /\ ~outcomes[ok].threw
       /\ results[ok] # <<>>

\* C12: an aggregation never waits on a connector call that will not settle:
\* once every promise still running is one that never settles, the handler
\* can complete with the results of the promises that did settle
C12_CompletesWithoutHungTasks ==
  pc = "loading" /\ running \subseteq hung => PromiseAllResolved

\* C13: when every connector of a request returned no candidate, the caller
\* is told so: no candidate is scored and every site is reported with the
\* 'Not Available' list of the empty case
C13_EmptyResultSetReported ==
  (Responded200 /\ \A k \in 1..Len(promises) : Returned(k) = <<>>) =>
    /\ candidates = <<>>
    /\ "best_overall" \notin DOMAIN response
    /\ response.results = NotAvailableResults(source.site)

\* C14: every candidate of the list the handler scores was returned by a
\* connector call of the request
C14_NoFabricatedData ==
  Responded200 =>
    \A i \in Indexes :
      \E k \in 1..Len(promises) :
        \E n \in 1..Len(Returned(k)) : candidates[i] = Returned(k)[n]

\* the entry of the response's results for a site
EntryOf(site) ==
  response.results[CHOOSE n \in 1..Len(response.results) :
                     response.results[n].site = site]

\* C15: the site of a connector that threw is reported not available, with a
\* reason other than the reason given for a site whose connector succeeded
\* and returned nothing; stated for the responses built from scraped
\* candidates, where the reasons are those of the handler's final loop
C15_ConnectorFailureRecorded ==
  (Responded200 /\ \E k \in 1..Len(promises) : Returned(k) # <<>>) =>
    \A failed \in 1..Len(promises) :
      outcomes[failed].threw =>
        /\ ~EntryOf(promises[failed]).available
        /\ \A empty \in 1..Len(promises) :
             ( /\ ~outcomes[empty].threw
               /\ Returned(empty) = <<>>
               /\ ~EntryOf(promises[empty]).available ) =>
               EntryOf(promises[empty]).reason # EntryOf(promises[failed]).reason

\* C16: the site of the request has no scrape promise, no candidate of the
\* list and no entry in the results of the response
C16_OwnSourceExcluded ==
  (pc = "loading" \/ Responded200) =>
    /\ \A k \in 1..Len(promises) : promises[k] # source.site
    /\ \A i \in Indexes : candidates[i].site # source.site
    /\ Responded200 =>
         \A n \in 1..Len(response.results) : response.results[n].site # source.site

\* C16 witness: a request of a site that has a connector was answered from
\* scraped candidates
C16_Witness ==
  /\ Responded200
  /\ source.site \in Range(SITES)
  /\ \E k \in 1..Len(promises) : Returned(k) # <<>>

\* C17: no settled scrape promise holds more than the limit passed to its
\* connector, no site has more than that many candidates in the list, and
\* the list holds at most the limit times the number of connectors called
C17_PerSourceLimit ==
  /\ pc = "loading" =>
       \A k \in Settled : Len(results[k]) <= SCRAPE_LIMIT
  /\ Responded200 =>
       /\ \A s \in Range(SITES) : Cardinality(OfSite(s)) <= SCRAPE_LIMIT
       /\ Len(candidates) <= SCRAPE_LIMIT * Len(promises)

\* C17 witness: a connector contributed as many candidates as the limit
\* allows, and another connector contributed too
C17_Witness ==
  /\ Responded200
  /\ \E k1, k2 \in 1..Len(promises) :
       k1 # k2 /\ Len(Returned(k1)) = SCRAPE_LIMIT /\ Returned(k2) # <<>>

\* the sites the handler knows, other than the site of the request
KnownOthers == Range(SITES) \ {source.site}

\* C18: the results of a response hold exactly one entry for every known
\* site other than the request's, whatever its connector did
C18_CompleteAvailabilityView ==
  Responded200 =>
    /\ Len(response.results) = Cardinality(KnownOthers)
    /\ \A s \in KnownOthers :
         Cardinality({n \in 1..Len(response.results) :
                        response.results[n].site = s}) = 1

\* C18 witness: one connector threw, one returned nothing and one returned
\* candidates
C18_Witness ==
  /\ Responded200
  /\ \E k1, k2, k3 \in 1..Len(promises) :
       /\ outcomes[k1].threw
       /\ ~outcomes[k2].threw /\ Returned(k2) = <<>>
       /\ Returned(k3) # <<>>

\* C19: an entry that is not available gives the 'not found' reason exactly
\* when the list holds no candidate of its site, and the 'low score' reason
\* exactly when its site has candidates that all score below the threshold;
\* the score it reports is then the highest score of the site's candidates.
\* Stated for the response and for the entry at every threshold of THRESHOLDS
C19_UnavailableReason ==
  Responded200 =>
    \A s \in KnownOthers :
      /\ ~EntryOf(s).available => EntryOf(s) = FinalResult(siteGroups, s, MATCH_THRESHOLD)
      /\ \A t \in THRESHOLDS :
           LET r == FinalResult(siteGroups, s, t)
           IN  ~r.available =>
                 /\ r.reason \in {REASON_NOT_FOUND, REASON_LOW_SCORE}
                 /\ r.reason = REASON_NOT_FOUND <=> OfSite(s) = {}
                 /\ r.reason = REASON_LOW_SCORE <=>
                      (OfSite(s) # {} /\ \A i \in OfSite(s) : ScoreOf(i) < t)
                 /\ OfSite(s) # {} =>
                      \E i \in OfSite(s) :
                        IsEarliestMax(i, OfSite(s)) /\ r.score = ScoreOf(i)

\* C19 witness: one response reports a site without candidates and a site
\* whose best candidate is below the threshold, and at a higher threshold a
\* site is not available with a positive best score
C19_Witness ==
  /\ Responded200
  /\ \E s1, s2 \in KnownOthers :
       /\ ~EntryOf(s1).available /\ OfSite(s1) = {}
       /\ ~EntryOf(s2).available /\ OfSite(s2) # {}
  /\ \E s \in KnownOthers : \E t \in THRESHOLDS :
       /\ ~FinalResult(siteGroups, s, t).available
       /\ FinalResult(siteGroups, s, t).score > 0

TIERS == {"excellent", "good", "fair"}

\* the tier of an entry r built at threshold t follows from its score alone
TierByScore(r, t) ==
  IF r.available
  THEN /\ r.match_quality \in TIERS
       /\ r.match_quality = "excellent" <=> r.score >= EXCELLENT_SCORE
       /\ r.match_quality = "good" <=>
            (GOOD_SCORE <= r.score /\ r.score < EXCELLENT_SCORE)
       /\ r.match_quality = "fair" <=> (t <= r.score /\ r.score < GOOD_SCORE)
  ELSE "match_quality" \in DOMAIN r => r.match_quality \notin TIERS

\* C20: an available entry carries exactly one tier, excellent from 0.8,
\* good from 0.6 up to 0.8, fair from the threshold up to 0.6; an entry that
\* is not available carries none of the three.  Stated for the response and
\* for the entry at every threshold of THRESHOLDS
C20_QualityTiers ==
  Responded200 =>
    \A s \in KnownOthers :
      /\ TierByScore(EntryOf(s), MATCH_THRESHOLD)
      /\ \A t \in THRESHOLDS : TierByScore(FinalResult(siteGroups, s, t), t)

\* C20 witness: one response holds an excellent entry, a good entry and an
\* entry that is not available, and some threshold makes an entry fair
C20_Witness ==
  /\ Responded200
  /\ \E s1, s2, s3 \in KnownOthers :
       /\ EntryOf(s1).available /\ EntryOf(s1).match_quality = "excellent"
       /\ EntryOf(s2).available /\ EntryOf(s2).match_quality = "good"
       /\ ~EntryOf(s3).available
  /\ \E s \in KnownOthers : \E t \in THRESHOLDS :
       /\ FinalResult(siteGroups, s, t).available
       /\ FinalResult(siteGroups, s, t).match_quality = "fair"

\* C21: a direct call throws exactly when the title of its source is empty
\* or missing, whatever the candidate list holds, and what it throws is
\* InvalidInput; the handler never calls the matcher with such a source
C21_InvalidInputOnly ==
  /\ pc = "called" =>
       /\ result.threw <=>
            (Field(source, "title") = Undefined \/ source.title = <<>>)
       /\ result.threw => result.error = "InvalidInput"
  /\ (Responded200 /\ result # Null) => ~result.threw

\* C21 witness: a call with an empty title and an empty candidate list threw
C21_Witness ==
  /\ pc = "called"
  /\ Field(source, "title") # Undefined
  /\ source.title = <<>>
  /\ candidates = <<>>
  /\ result.threw

\* C22: a direct call with a title and an empty candidate list returns, with
\* no best candidate, score 0, no scored entry, no per-site best, and an
\* error marker other than the reasons the handler gives for a site
C22_NoCandidates ==
  (pc = "called" /\ ~TitleMissing(source) /\ candidates = <<>>) =>
    /\ ~result.threw
    /\ result.best = Null
    /\ result.score = 0
    /\ result.allScores = <<>>
    /\ GroupBySite(NoGroups, result.allScores) = NoGroups
    /\ "error" \in DOMAIN result.reason
    /\ result.reason.error \notin {REASON_NOT_FOUND, REASON_LOW_SCORE}

\* C22 witness: a call with a title and no candidate has returned
C22_Witness ==
  /\ pc = "called"
  /\ ~TitleMissing(source)
  /\ candidates = <<>>
  /\ ~result.threw

\* 0.95
STAGE2_MAX == (19 * One) \div 20

\* the scored entries whose score is the stage-2 score alone: no identifier
\* match and no bonus
Stage2Only ==
  {k \in 1..Len(result.allScores) :
     result.allScores[k].reason.breakdown = <<"title similarity">>}

SharedTokens(k) ==
  Cardinality(tokenize(source.title) \cap tokenize(result.allScores[k].title))

AllTokens(k) ==
  Cardinality(tokenize(source.title) \cup tokenize(result.allScores[k].title))

\* C23: a score that is the stage-2 score alone lies between 0.5 and 0.95,
\* and of two such candidates of one call the one that shares at least as
\* many tokens with the source, in a union that is not larger, does not
\* score less
C23_Stage2RangeAndMonotonicity ==
  (Responded200 \/ CalledOk) =>
    \A k1, k2 \in Stage2Only :
      /\ STAGE2_FLOOR <= result.allScores[k1].score
      /\ result.allScores[k1].score <= STAGE2_MAX
      /\ (SharedTokens(k1) <= SharedTokens(k2) /\ AllTokens(k1) >= AllTokens(k2))
           => result.allScores[k1].score <= result.allScores[k2].score

\* C23 witness: two candidates of one call with unions of the same size, one
\* sharing no token with the source and scoring 0.5, the other sharing one
\* and scoring more
C23_Witness ==
  /\ CalledOk
  /\ \E k1, k2 \in Stage2Only :
       /\ AllTokens(k1) = AllTokens(k2)
       /\ SharedTokens(k1) = 0
       /\ SharedTokens(k2) > 0
       /\ result.allScores[k1].score = STAGE2_FLOOR
       /\ result.allScores[k1].score < result.allScores[k2].score

\* the scored entries whose title is empty and that matched no identifier
EmptyTitled ==
  {k \in 1..Len(result.allScores) :
     /\ result.allScores[k].title = <<>>
     /\ ~result.allScores[k].reason.model_match}

DistinctListings(i, j) ==
  /\ i # j
  /\ \/ candidates[i].title # candidates[j].title
     \/ candidates[i].price_cents # candidates[j].price_cents

\* C25: the canonical key of the source of a request is its site, a colon
\* and its id, and no two different listings of the candidate list have the
\* same site and the same site_id
C25_CanonicalKeyUnique ==
  Responded200 =>
    /\ source.canonical_key = <<source.site, ":", source.site_id>>
    /\ \A i, j \in Indexes :
         DistinctListings(i, j) =>
           ~(/\ candidates[i].site = candidates[j].site
             /\ candidates[i].site_id = candidates[j].site_id)

\* C26: the price of every candidate of the list is a strictly positive
\* whole number of minor units; a product whose price was not extracted
\* carries no price, never 0
C26_PricePositiveOrNull ==
  Responded200 =>
    \A i \in Indexes :
      IF candidates[i].price_cents \in Int
      THEN candidates[i].price_cents > 0
      ELSE candidates[i].price_cents = Null

\* the connector calls waiting for their own puppeteer.launch
Launching == {c \in CALLS : call[c].at = "launching"}

\* the connector calls that hold the browser getBrowser returned to them
Holders == {c \in CALLS : call[c].at \in {"newPage", "onPage"}}

\* C27: the browsers connected and the launches under way are never more
\* than one in all, and any two connector calls holding a connected browser
\* hold the same one
C27_SingleSharedBrowser ==
  /\ Cardinality(connected) + Cardinality(Launching) <= 1
  /\ \A c1, c2 \in Holders :
       (call[c1].browser \in connected /\ call[c2].browser \in connected)
         => call[c1].browser = call[c2].browser

\* C30: a connector call that has returned or failed has left no page open,
\* so no page is open when no connector call is in progress
C30_NoPageLeak ==
  /\ \A c \in CALLS :
       call[c].at = "done" => \A pg \in openPages : pg.owner # c
  /\ (\A c \in CALLS : call[c].at \in {"idle", "done"}) => openPages = {}

\* the score the bonus arithmetic gives a candidate without identifier match
\* and with title tokens: min(1.0, stage 2 + 0.10 for equal brands + 0.05 per
\* shared significant keyword)
BonusSum(k) ==
  Stage2Score(tokenize(source.title), tokenize(result.allScores[k].title))
    + (IF BrandMatch(source, result.allScores[k]) THEN One \div 10 ELSE 0)
    + (One \div 20) * Cardinality(tokenize(source.title)
                                   \cap tokenize(result.allScores[k].title)
                                   \cap SIGNIFICANT_KEYWORDS)

\* entry k of allScores went through stage 2 and the bonuses
Bonused(k) ==
  /\ ~result.allScores[k].reason.model_match
  /\ tokenize(result.allScores[k].title) # {}

SharesKeyword(k) == SharedKeywords(source, result.allScores[k]) # {}

Stage2Of(k) ==
  Stage2Score(tokenize(source.title), tokenize(result.allScores[k].title))

\* C28: without identifier match the final score is min(1.0, stage 2 + 0.10
\* for equal brands + 0.05 per shared significant keyword); it is never below
\* the stage-2 score; and of two candidates, the one that shares a
\* significant keyword with the source, with a stage-2 score and a brand
\* bonus not below the other's, scores strictly higher than the one that
\* shares none
C28_BonusArithmetic ==
  (pc = "called" /\ ~result.threw /\ candidates # <<>>) =>
    /\ \A k \in 1..Len(result.allScores) :
         Bonused(k) =>
           /\ result.allScores[k].score = Min2(One, BonusSum(k))
           /\ result.allScores[k].score >= Stage2Of(k)
    /\ \A i, j \in 1..Len(result.allScores) :
         ( /\ Bonused(i) /\ Bonused(j)
           /\ SharesKeyword(i) /\ ~SharesKeyword(j)
           /\ Stage2Of(i) >= Stage2Of(j)
           /\ BrandMatch(source, result.allScores[j])
                => BrandMatch(source, result.allScores[i]) )
           => result.allScores[i].score > result.allScores[j].score

\* the explanations breakdown must hold for entry k of allScores when the
\* identifier stage did not match: that of stage 2, then that of the brand
\* bonus if the brands are equal, then that of the keyword bonus if a
\* significant keyword is shared
ExpectedBreakdown(k) ==
  IF tokenize(result.allScores[k].title) = {} THEN <<"empty title">>
  ELSE <<"title similarity">>
       \o (IF BrandMatch(source, result.allScores[k])
           THEN <<"brand match">> ELSE <<>>)
       \o (IF SharesKeyword(k) THEN <<"shared keywords">> ELSE <<>>)

\* C29: the identifier stage runs first: a candidate it matches has score
\* exactly 1.0, modelMatch true and a breakdown of the identifier explanation
\* alone; any other candidate has modelMatch false and a breakdown of the
\* stage-2 explanation followed by one explanation per bonus that fired, in
\* the order the bonuses are applied
C29_StageOrdering ==
  (pc = "called" /\ ~result.threw /\ candidates # <<>>) =>
    \A k \in 1..Len(result.allScores) :
      IF ModelMatch(source, result.allScores[k])
      THEN /\ result.allScores[k].score = One
           /\ result.allScores[k].reason.model_match
           /\ result.allScores[k].reason.breakdown = <<"exact model match">>
      ELSE /\ ~result.allScores[k].reason.model_match
           /\ result.allScores[k].reason.breakdown = ExpectedBreakdown(k)

\* a call with a candidate matched by the identifier stage whose title also
\* has tokens in common with the source, and a candidate scored by stage 2
\* on which a bonus fired
C29_Witness ==
  /\ pc = "called" /\ ~result.threw /\ candidates # <<>>
  /\ \E i, j \in 1..Len(result.allScores) :
       /\ result.allScores[i].reason.model_match
       /\ tokenize(source.title) \cap tokenize(result.allScores[i].title) # {}
       /\ ~result.allScores[j].reason.model_match
       /\ Len(result.allScores[j].reason.breakdown) >= 2

====
